---------------------------- MODULE Spec2Model ----------------------------
(***************************************************************************)
(* Model of src/main.py: an HTTP front end (HttpHandler, run_http_server)  *)
(* that relays every POST body over TCP (send_data_to_socket) to a socket  *)
(* server (run_socket_server, handle) which stores each received chunk in  *)
(* MongoDB (save_data) and echoes it back.                                 *)
(*                                                                         *)
(* Bytes and characters are integers: a byte is 0..255, a character is its *)
(* Unicode code point.  A payload, a chunk and a text are sequences.       *)
(***************************************************************************)
EXTENDS Integers, Sequences, FiniteSets, Bags, TLC

(***************************************************************************)
(* Bounds of the model.                                                    *)
(***************************************************************************)
NumConn == 2        \* relay connections opened by peers
MaxSends == 2       \* payload writes the peers issue in one run
MaxFaults == 1      \* environment faults injected in one run
MaxLen == 4         \* length of the chunks drawn for the decode check
NumReq == 2         \* HTTP requests
NumLive == 3        \* peers that are not stalled in the pool check

(***************************************************************************)
(* Program constants.                                                      *)
(***************************************************************************)
BUFSIZE == 1024     \* sock.recv(1024)
max_workers == 10   \* cf.ThreadPoolExecutor(10)
backlog_size == 10  \* sock.listen(10)

AMP == 38           \* '&'
EQ == 61            \* '='
PCT == 37           \* '%'
PLUS == 43          \* '+'
SPACE == 32         \* ' '
REPLACEMENT == 65533 \* U+FFFD, what errors='replace' puts for undecodable bytes

(***************************************************************************)
(* Sequence helpers.                                                       *)
(***************************************************************************)
Min(a, b) == IF a <= b THEN a ELSE b

Take(s, n) == SubSeq(s, 1, Min(n, Len(s)))

Drop(s, n) == SubSeq(s, Min(n, Len(s)) + 1, Len(s))

Rep(x, n) == [i \in 1..n |-> x]

RECURSIVE SortedSeq(_)
\* The elements of a finite set of integers in increasing order.
SortedSeq(S) ==
    IF S = {} THEN <<>>
    ELSE LET m == CHOOSE x \in S : \A y \in S : x <= y
         IN <<m>> \o SortedSeq(S \ {m})

(***************************************************************************)
(* bytes.decode(): strict UTF-8.  str.split.  urllib.parse.unquote_plus.   *)
(***************************************************************************)
IsCont(b) == b >= 128 /\ b <= 191

\* Number of bytes of the UTF-8 form that lead byte b announces (0: b is no
\* lead byte).
Utf8Need(b) ==
    IF b < 128 THEN 1
    ELSE IF b >= 194 /\ b <= 223 THEN 2
    ELSE IF b >= 224 /\ b <= 239 THEN 3
    ELSE IF b >= 240 /\ b <= 244 THEN 4
    ELSE 0

\* The range the second byte of a form must lie in (overlong forms,
\* surrogates and code points above U+10FFFF are not UTF-8).
Utf8SecondOk(lead, b) ==
    /\ IsCont(b)
    /\ (lead = 224 => b >= 160)
    /\ (lead = 237 => b <= 159)
    /\ (lead = 240 => b >= 144)
    /\ (lead = 244 => b <= 143)

\* How many of the bytes after position i continue the form that starts at i.
Utf8Follow(b, i) ==
    LET need == Utf8Need(b[i])
        ok(k) == /\ i + k <= Len(b)
                 /\ IF k = 1 THEN Utf8SecondOk(b[i], b[i + k]) ELSE IsCont(b[i + k])
    IN IF need >= 2 /\ ok(1)
       THEN IF need >= 3 /\ ok(2)
            THEN IF need >= 4 /\ ok(3) THEN 3 ELSE 2
            ELSE 1
       ELSE 0

Utf8Point(b, i, n) ==
    IF n = 1 THEN b[i]
    ELSE IF n = 2 THEN (b[i] % 32) * 64 + (b[i + 1] % 64)
    ELSE IF n = 3 THEN (b[i] % 16) * 4096 + (b[i + 1] % 64) * 64 + (b[i + 2] % 64)
    ELSE (b[i] % 8) * 262144 + (b[i + 1] % 64) * 4096
         + (b[i + 2] % 64) * 64 + (b[i + 3] % 64)

\* Whether the bytes are UTF-8 from position i on.
RECURSIVE Utf8ValidFrom(_, _)
Utf8ValidFrom(b, i) ==
    IF i > Len(b) THEN TRUE
    ELSE LET need == Utf8Need(b[i])
         IN /\ need > 0
            /\ Utf8Follow(b, i) = need - 1
            /\ Utf8ValidFrom(b, i + need)

\* The characters of the bytes from position i on, an undecodable part
\* replaced by U+FFFD (errors='replace').
RECURSIVE Utf8ReplaceFrom(_, _)
Utf8ReplaceFrom(b, i) ==
    IF i > Len(b) THEN <<>>
    ELSE LET need == Utf8Need(b[i])
             got == Utf8Follow(b, i)
         IN IF need > 0 /\ got = need - 1
            THEN <<Utf8Point(b, i, need)>> \o Utf8ReplaceFrom(b, i + need)
            ELSE <<REPLACEMENT>> \o Utf8ReplaceFrom(b, i + 1 + got)

IsAscii(b) == \A i \in 1..Len(b) : b[i] < 128

\* data.decode() raises UnicodeDecodeError, a ValueError, on bytes that are
\* not UTF-8.
CanDecode(data) == IsAscii(data) \/ Utf8ValidFrom(data, 1)

BytesDecode(data) == IF IsAscii(data) THEN data ELSE Utf8ReplaceFrom(data, 1)

IsHex(c) == (c >= 48 /\ c <= 57) \/ (c >= 65 /\ c <= 70) \/ (c >= 97 /\ c <= 102)

HexVal(c) == IF c <= 57 THEN c - 48 ELSE IF c <= 70 THEN c - 55 ELSE c - 87

\* The positions where a %XX escape starts.
EscapeStarts(s) ==
    {i \in 1..Len(s) : /\ s[i] = PCT
                       /\ i + 2 <= Len(s)
                       /\ IsHex(s[i + 1])
                       /\ IsHex(s[i + 2])}

\* unquote_to_bytes on an ASCII run: every %XX becomes the byte XX, the rest
\* is kept.  esc lists the escape starts at or after position from.
RECURSIVE UnquoteRun(_, _, _)
UnquoteRun(s, from, esc) ==
    IF esc = <<>> THEN SubSeq(s, from, Len(s))
    ELSE LET e == Head(esc)
         IN SubSeq(s, from, e - 1)
            \o <<16 * HexVal(s[e + 1]) + HexVal(s[e + 2])>>
            \o UnquoteRun(s, e + 3, Tail(esc))

\* unquote() decodes each maximal ASCII run of the text on its own and keeps
\* the characters above U+007F between the runs.
RECURSIVE UnquoteFrom(_, _)
UnquoteFrom(s, high) ==
    IF high = <<>> THEN BytesDecode(UnquoteRun(s, 1, SortedSeq(EscapeStarts(s))))
    ELSE LET h == Head(high)
             run == SubSeq(s, 1, h - 1)
             rest == SubSeq(s, h + 1, Len(s))
         IN BytesDecode(UnquoteRun(run, 1, SortedSeq(EscapeStarts(run))))
            \o <<s[h]>>
            \o UnquoteFrom(rest, [k \in 1..(Len(high) - 1) |-> high[k + 1] - h])

Unquote(s) == UnquoteFrom(s, SortedSeq({i \in 1..Len(s) : s[i] >= 128}))

\* urllib.parse.unquote_plus: '+' becomes ' ', then unquote.
UnquotePlus(s) ==
    Unquote([i \in 1..Len(s) |-> IF s[i] = PLUS THEN SPACE ELSE s[i]])

\* str.split(sep) for a one-character separator: the pieces between the
\* separators, empty pieces kept.  cuts lists the separator positions.
RECURSIVE SplitAt(_, _, _)
SplitAt(s, from, cuts) ==
    IF cuts = <<>> THEN <<SubSeq(s, from, Len(s))>>
    ELSE <<SubSeq(s, from, Head(cuts) - 1)>> \o SplitAt(s, Head(cuts) + 1, Tail(cuts))

Split(s, sep) == SplitAt(s, 1, SortedSeq({i \in 1..Len(s) : s[i] = sep}))

(***************************************************************************)
(* save_data, lines 123-124: the text of the chunk and the dictionary      *)
(* built from it.                                                          *)
(***************************************************************************)
\* data_parse = urllib.parse.unquote_plus(data.decode())
DataParse(data) == UnquotePlus(BytesDecode(data))

\* [el.split('=') for el in data_parse.split('&')]
Pairs(text) == LET els == Split(text, AMP)
               IN [i \in 1..Len(els) |-> Split(els[i], EQ)]

\* "for key, value in" unpacks every element into exactly two names and
\* raises ValueError on any other length.
ParseOk(text) == \A i \in 1..Len(Pairs(text)) : Len(Pairs(text)[i]) = 2

\* {key: value for key, value in ...}: a later pair replaces an earlier one
\* with the same key.
DataDict(text) ==
    LET ps == Pairs(text)
        keys == {ps[i][1] : i \in 1..Len(ps)}
        last(k) == CHOOSE i \in 1..Len(ps) :
                       /\ ps[i][1] = k
                       /\ \A j \in 1..Len(ps) : ps[j][1] = k => j <= i
    IN [k \in keys |-> ps[last(k)][2]]


(***************************************************************************)
(* State.                                                                  *)
(***************************************************************************)
VARIABLES
    pc,          \* per connection: where its socket and its handle call are
    peer,        \* per connection: the other end ([state, stalled])
    inbuf,       \* per connection: bytes the peer wrote that recv has not taken
    sent,        \* per connection: the payloads the peer wrote, in order
    received,    \* per connection: handle's local "received"
    echo,        \* per connection: the bytes handle sent back, in order
    session,     \* per connection: save_data's local "client"
    data_dict,   \* per connection: save_data's local "data_dict"
    log,         \* per connection: what its worker logged, in order
    count,       \* per connection: chunks read, save_data calls ended, acks sent
    fault,       \* per connection: the environment faults that hit it
    messages,    \* the documents of db.messages, a bag
    backlog,     \* connections the kernel completed and accept has not returned
    work_queue,  \* calls submitted to the executor that no worker has taken
    srv,         \* run_socket_server: where the accept loop is
    faults_left, \* faults the environment may still inject
    sends_left,  \* payload writes the peers may still issue
    menu,        \* which payloads a peer may write: the name of a menu
    req,         \* per HTTP request: the request and where its handler is
    http_log     \* what the HTTP process logged, in order

vars == <<pc, peer, inbuf, sent, received, echo, session, data_dict, log, count,
          fault, messages, backlog, work_queue, srv, faults_left, sends_left, menu, req, http_log>>

Ids == DOMAIN pc

\* The positions at which a worker thread is inside handle(sock, address).
HandlePcs == {"recv", "client", "insert", "finally", "send"}

\* The positions inside save_data(received).
SavePcs == {"client", "insert", "finally"}

\* A pool whose workers are not free again after handle has returned.
Running_NeverFreed == {c \in Ids : pc[c] \in HandlePcs \cup {"done"}}

\* The connections that hold a worker: those whose handle call is running.
Running == {c \in Ids : pc[c] \in HandlePcs}

\* The key 'date', and str(datetime.now()): the server's time, 'now'.
DateKey == <<100, 97, 116, 101>>

DateStr == <<110, 111, 119>>

Logged(c, level, msg, exc) ==
    Append(log[c], [level |-> level, msg |-> msg, exc |-> exc])

NoDict == [k \in {} |-> <<>>]

\* The HTTP requests, and those the server thread is handling.
Reqs == DOMAIN req

HandlerPcs == {"get", "read", "connect", "send", "recv", "respond"}

Serving == {r \in Reqs : req[r].state \in HandlerPcs}

\* The relay connections whose client socket is a live local of a running
\* send_data_to_socket call (lines 105-110).
HeldByClient(c) == \E r \in Reqs : req[r].conn = c /\ req[r].state \in {"send", "recv"}

(***************************************************************************)
(* The peers of the relay server, and what they may write.                 *)
(***************************************************************************)
\* 'k=v', a well-formed payload, and 'x', a malformed one.
ShortMenu == {<<107, 61, 118>>, <<120>>}

\* 'a=' 'x' * 1500 '&' 'b' * 600 '=2': 2105 bytes, well-formed.
LongPayload == <<97, 61>> \o Rep(120, 1500) \o <<AMP>> \o Rep(98, 600) \o <<EQ, 50>>

\* 'k=' 'v' * 1100: 1102 bytes, well-formed.
LongValue == <<107, 61>> \o Rep(118, 1100)

\* Payloads longer than one recv(1024), and two short ones.
LongMenu == {LongPayload, LongValue, <<107, 61, 118>>, <<120>>}

\* 'k', '=', '&', '%', '3', 'D', '+' and the byte 0xFF, which no UTF-8 text
\* holds.
Alphabet == {107, EQ, AMP, PCT, 51, 68, PLUS, 255}

\* Every byte string over the alphabet of length 1..MaxLen.
AllChunks == UNION {[1..n -> Alphabet] : n \in 1..MaxLen}

\* 'date=x&k=v', a payload that brings its own date, and 'k=v'.
DatedPayload == <<100, 97, 116, 101, 61, 120, 38, 107, 61, 118>>

DatedMenu == {DatedPayload, <<107, 61, 118>>}

Payloads ==
    CASE menu = "short" -> ShortMenu
      [] menu = "long" -> LongMenu
      [] menu = "dated" -> DatedMenu
      [] menu = "chunks" -> AllChunks

\* A listener that never goes away.
Listening_Always == TRUE

\* The listening socket of run_socket_server is open from line 169 until
\* line 179 closes it; until then the main thread is in the accept loop.
Listening == srv = "accept"

\* connect(): the kernel queues the connection until accept returns it.
\* Connections are numbered in the order in which they are opened.
PeerConnect(c) ==
    /\ pc[c] = "new"
    /\ \A d \in Ids : d < c => pc[d] # "new"
    /\ Listening
    /\ Len(backlog) < backlog_size
    /\ pc' = [pc EXCEPT ![c] = "backlog"]
    /\ peer' = [peer EXCEPT ![c].state = "open"]
    /\ backlog' = Append(backlog, c)
    /\ UNCHANGED <<inbuf, sent, received, echo, session, data_dict, log, count,
                   fault, messages, work_queue, srv, faults_left, sends_left, menu, req, http_log>>

\* One write of one payload; the bytes join the stream in one piece.  A
\* stalled peer writes nothing.
PeerSend(c) ==
    /\ peer[c].state = "open"
    /\ ~peer[c].stalled
    /\ sends_left > 0
    /\ pc[c] # "done"
    /\ \E p \in Payloads :
         /\ inbuf' = [inbuf EXCEPT ![c] = @ \o p]
         /\ sent' = [sent EXCEPT ![c] = Append(@, p)]
    /\ sends_left' = sends_left - 1
    /\ UNCHANGED <<pc, peer, received, echo, session, data_dict, log, count, fault,
                   messages, backlog, work_queue, srv, faults_left, menu, req, http_log>>

\* The peer closes its socket; a stalled peer never does.  The socket of
\* send_data_to_socket is never closed by the code: it is closed when the
\* interpreter collects it, which is some time after the call has returned.
PeerClose(c) ==
    /\ peer[c].state = "open"
    /\ ~peer[c].stalled
    /\ ~HeldByClient(c)
    /\ peer' = [peer EXCEPT ![c].state = "closed"]
    /\ UNCHANGED <<pc, inbuf, sent, received, echo, session, data_dict, log, count,
                   fault, messages, backlog, work_queue, srv, faults_left, sends_left, menu, req, http_log>>

(***************************************************************************)
(* run_socket_server, lines 171-175.                                       *)
(***************************************************************************)
\* new_sock, address = sock.accept(); client_pool.submit(handle, ...)
Accept ==
    /\ Listening
    /\ backlog # <<>>
    /\ LET c == Head(backlog)
       IN /\ pc' = [pc EXCEPT ![c] = "queued"]
          /\ work_queue' = Append(work_queue, c)
    /\ backlog' = Tail(backlog)
    /\ UNCHANGED <<peer, inbuf, sent, received, echo, session, data_dict, log, count,
                   fault, messages, srv, faults_left, sends_left, menu, req, http_log>>

\* A pool that starts one worker too many.
HasIdleWorker_OneMore == Cardinality(Running) <= max_workers

\* ThreadPoolExecutor(10): a submitted call starts when fewer than
\* max_workers calls are running.
HasIdleWorker == Cardinality(Running) < max_workers

\* A worker takes the oldest submitted call and enters handle (line 143).
WorkerStart ==
    /\ work_queue # <<>>
    /\ HasIdleWorker
    /\ pc' = [pc EXCEPT ![Head(work_queue)] = "recv"]
    /\ work_queue' = Tail(work_queue)
    /\ UNCHANGED <<peer, inbuf, sent, received, echo, session, data_dict, log, count,
                   fault, messages, backlog, srv, faults_left, sends_left, menu, req, http_log>>

(***************************************************************************)
(* handle, lines 143-156, and save_data, lines 120-134.  Each action is    *)
(* one step of the worker thread that runs handle for connection c; the    *)
(* steps that touch nothing but the thread's own locals are taken          *)
(* together with the step before them.                                     *)
(***************************************************************************)
\* The environment makes one more call fail (a reset connection, a client
\* that cannot be built, an unreachable backend).
Hit(c, kind) ==
    /\ faults_left > 0
    /\ faults_left' = faults_left - 1
    /\ fault' = [fault EXCEPT ![c] = @ \cup {kind}]

NoHit == UNCHANGED <<fault, faults_left>>

\* A handle that swallows the error without a log entry.
HandleExcept_Silent(c, exc) ==
    /\ pc' = [pc EXCEPT ![c] = "done"]
    /\ UNCHANGED log

\* Lines 153-156: handle's "except Exception" logs, "finally" closes the
\* socket, handle returns and its worker is idle again.
HandleExcept(c, exc) ==
    /\ log' = [log EXCEPT ![c] =
                 Logged(c, "error", "Unexpected error on socket server receive", exc)]
    /\ pc' = [pc EXCEPT ![c] = "done"]

\* A handle that echoes without waiting for save_data.
AfterRecv_NoWait == "send"

\* Where handle goes with a non-empty chunk: line 149, into save_data.
AfterRecv == "client"

\* A handle that treats the empty read as one more chunk to echo.
AfterEof_Echo == "send"

\* Where handle goes with an empty chunk: lines 147-148 break out of the
\* loop, line 156 closes the socket and handle returns.
AfterEof == "done"

\* Lines 146-149: received = sock.recv(1024).  A non-empty chunk goes to
\* save_data, an empty one (the peer closed) leaves the loop and line 156
\* closes the socket, an error is caught by line 153.  recv blocks while
\* nothing has arrived.
Recv(c) ==
    /\ pc[c] = "recv"
    /\ \/ /\ inbuf[c] # <<>>
          /\ received' = [received EXCEPT ![c] = Take(inbuf[c], BUFSIZE)]
          /\ inbuf' = [inbuf EXCEPT ![c] = Drop(@, BUFSIZE)]
          /\ pc' = [pc EXCEPT ![c] = AfterRecv]
          /\ session' = [session EXCEPT ![c] = "unbound"]
          /\ data_dict' = [data_dict EXCEPT ![c] = NoDict]
          /\ count' = [count EXCEPT ![c].recv = @ + 1]
          /\ NoHit
          /\ UNCHANGED log
       \/ /\ inbuf[c] = <<>>
          /\ peer[c].state = "closed"
          /\ received' = [received EXCEPT ![c] = <<>>]
          /\ pc' = [pc EXCEPT ![c] = AfterEof]
          /\ NoHit
          /\ UNCHANGED <<inbuf, session, data_dict, count, log>>
       \/ /\ Hit(c, "recv")
          /\ HandleExcept(c, "OSError")
          /\ UNCHANGED <<inbuf, received, session, data_dict, count>>
    /\ UNCHANGED <<peer, sent, echo, messages, backlog, work_queue, srv, sends_left, menu, req, http_log>>

\* Lines 123-125 succeed: data.decode() and the unpacking of every pair.
\* UnicodeDecodeError and the unpacking error are ValueErrors.
Parses(data) == CanDecode(data) /\ ParseOk(DataParse(data))

\* A stamp that keeps the date the caller supplied.
Stamped_KeepCaller(data) ==
    LET d == DataDict(DataParse(data))
    IN [k \in DOMAIN d \cup {DateKey} |-> IF k \in DOMAIN d THEN d[k] ELSE DateStr]

\* Lines 124-125: the dictionary of the chunk with data_dict['date'] set.
Stamped(data) ==
    LET d == DataDict(DataParse(data))
    IN [k \in DOMAIN d \cup {DateKey} |-> IF k = DateKey THEN DateStr ELSE d[k]]

\* Lines 121-125.  client = MongoClient(uri, ...): when the constructor
\* raises, line 129 logs and "client" stays unbound.  Then the chunk is
\* decoded, unquoted, split and stamped; a ValueError is logged by line 127.
SaveBegin(c) ==
    /\ pc[c] = "client"
    /\ \/ /\ session' = [session EXCEPT ![c] = "open"]
          /\ NoHit
          /\ IF Parses(received[c])
             THEN /\ data_dict' = [data_dict EXCEPT ![c] = Stamped(received[c])]
                  /\ pc' = [pc EXCEPT ![c] = "insert"]
                  /\ UNCHANGED log
             ELSE /\ log' = [log EXCEPT ![c] =
                               Logged(c, "error", "Parsing error", "ValueError")]
                  /\ pc' = [pc EXCEPT ![c] = "finally"]
                  /\ UNCHANGED data_dict
       \/ /\ Hit(c, "client")
          /\ log' = [log EXCEPT ![c] =
                       Logged(c, "error", "Unexpected error while data saving", "ClientError")]
          /\ pc' = [pc EXCEPT ![c] = "finally"]
          /\ UNCHANGED <<session, data_dict>>
    /\ UNCHANGED <<peer, inbuf, sent, received, echo, count, messages,
                   backlog, work_queue, srv, sends_left, menu, req, http_log>>

\* An insert that replaces what another worker stored in the meantime.
InsertOne_Overwrite(c) ==
    SetToBag({[from |-> c, chunk |-> count[c].recv, doc |-> data_dict[c]]})

\* db.messages.insert_one(data_dict): one more document in the collection.
InsertOne(c) ==
    messages (+) SetToBag({[from |-> c, chunk |-> count[c].recv, doc |-> data_dict[c]]})

\* Line 126: await asyncio.to_thread(db.messages.insert_one(data_dict)).
\* insert_one runs first, as the argument; to_thread is then given its
\* result, which is not callable: TypeError, caught by line 129.  An
\* unreachable backend makes insert_one itself raise.
SaveInsert(c) ==
    /\ pc[c] = "insert"
    /\ \/ /\ messages' = InsertOne(c)
          /\ log' = [log EXCEPT ![c] =
                       Logged(c, "error", "Unexpected error while data saving", "TypeError")]
          /\ NoHit
       \/ /\ Hit(c, "insert")
          /\ log' = [log EXCEPT ![c] =
                       Logged(c, "error", "Unexpected error while data saving", "PyMongoError")]
          /\ UNCHANGED messages
    /\ pc' = [pc EXCEPT ![c] = "finally"]
    /\ UNCHANGED <<peer, inbuf, sent, received, echo, session, data_dict, count,
                   backlog, work_queue, srv, sends_left, menu, req, http_log>>

\* A finally clause that leaves the client open.
ClientClosed_Leak == "open"

\* Line 133: client.close().
ClientClosed == "closed"

\* Lines 131-134: "if client:" closes a bound client and save_data returns;
\* on an unbound one it raises UnboundLocalError, which leaves save_data and
\* asyncio.run and is caught by handle's line 153.
SaveFinally(c) ==
    /\ pc[c] = "finally"
    /\ count' = [count EXCEPT ![c].saved = @ + 1]
    /\ IF session[c] = "open"
       THEN /\ log' = [log EXCEPT ![c] =
                         Logged(c, "info", "Database connection closed", "")]
            /\ session' = [session EXCEPT ![c] = ClientClosed]
            /\ pc' = [pc EXCEPT ![c] = "send"]
       ELSE /\ HandleExcept(c, "UnboundLocalError")
            /\ UNCHANGED session
    /\ UNCHANGED <<peer, inbuf, sent, received, echo, data_dict, fault, messages,
                   backlog, work_queue, srv, faults_left, sends_left, menu, req, http_log>>

\* Lines 150-151: sock.send(received), then back to recv.
Send(c) ==
    /\ pc[c] = "send"
    /\ \/ /\ echo' = [echo EXCEPT ![c] = @ \o received[c]]
          /\ count' = [count EXCEPT ![c].acked = @ + 1]
          /\ pc' = [pc EXCEPT ![c] = "recv"]
          /\ NoHit
          /\ UNCHANGED log
       \/ /\ Hit(c, "send")
          /\ HandleExcept(c, "OSError")
          /\ UNCHANGED <<echo, count>>
    /\ UNCHANGED <<peer, inbuf, sent, received, session, data_dict, messages,
                   backlog, work_queue, srv, sends_left, menu, req, http_log>>

(***************************************************************************)
(* The relay server with its peers.                                        *)
(***************************************************************************)
\* The server is listening.  The connections in held were opened by peers
\* that then went silent for good: each has been accepted and has a worker,
\* which is blocked in recv.  The others are not opened yet.
InitRelay(ids, held) ==
    /\ pc = [c \in ids |-> IF c \in held THEN "recv" ELSE "new"]
    /\ peer = [c \in ids |-> IF c \in held THEN [state |-> "open", stalled |-> TRUE]
                                            ELSE [state |-> "absent", stalled |-> FALSE]]
    /\ inbuf = [c \in ids |-> <<>>]
    /\ sent = [c \in ids |-> <<>>]
    /\ received = [c \in ids |-> <<>>]
    /\ echo = [c \in ids |-> <<>>]
    /\ session = [c \in ids |-> "unbound"]
    /\ data_dict = [c \in ids |-> NoDict]
    /\ log = [c \in ids |-> <<>>]
    /\ count = [c \in ids |-> [recv |-> 0, saved |-> 0, acked |-> 0]]
    /\ fault = [c \in ids |-> {}]
    /\ messages = EmptyBag
    /\ backlog = <<>>
    /\ work_queue = <<>>
    /\ srv = "accept"

\* No HTTP request.
NoHttp ==
    /\ req = <<>>
    /\ http_log = <<>>

Init ==
    /\ InitRelay(1..NumConn, {})
    /\ NoHttp
    /\ faults_left = MaxFaults
    /\ sends_left = MaxSends
    /\ menu = "short"

Next ==
    \/ \E c \in Ids : PeerConnect(c)
    \/ \E c \in Ids : PeerSend(c)
    \/ \E c \in Ids : PeerClose(c)
    \/ Accept
    \/ WorkerStart
    \/ \E c \in Ids : Recv(c)
    \/ \E c \in Ids : SaveBegin(c)
    \/ \E c \in Ids : SaveInsert(c)
    \/ \E c \in Ids : SaveFinally(c)
    \/ \E c \in Ids : Send(c)

Spec == Init /\ [][Next]_vars

(***************************************************************************)
(* One connection that carries one payload, as send_data_to_socket's do,   *)
(* with payloads longer than one recv(1024) among the choices.             *)
(***************************************************************************)
InitLong ==
    /\ InitRelay({1}, {})
    /\ NoHttp
    /\ faults_left = MaxFaults
    /\ sends_left = 1
    /\ menu = "long"

SpecLong == InitLong /\ [][Next]_vars

(***************************************************************************)
(* A pool with all workers but one held by silent peers, and NumLive more  *)
(* peers that connect, write one payload between them and close.           *)
(***************************************************************************)
InitPool ==
    /\ InitRelay(1..(max_workers - 1 + NumLive), 1..(max_workers - 1))
    /\ NoHttp
    /\ faults_left = 1
    /\ sends_left = 1
    /\ menu = "short"

SpecPool == InitPool /\ [][Next]_vars

(***************************************************************************)
(* One connection whose peer writes one chunk, any byte string over the    *)
(* alphabet: save_data on every short chunk.                               *)
(***************************************************************************)
InitDecode ==
    /\ InitRelay({1}, {})
    /\ NoHttp
    /\ faults_left = 0
    /\ sends_left = 1
    /\ menu = "chunks"

SpecDecode == InitDecode /\ [][Next]_vars

(***************************************************************************)
(* The pool under fair scheduling.  Either all workers but one, or all of  *)
(* them, are held by silent peers; NumLive more peers connect, write one   *)
(* payload between them and close.  The operating system runs every thread *)
(* that can take a step, a blocked recv returns once there is something to *)
(* return, and a peer that is not silent for good closes in the end.       *)
(***************************************************************************)
InitLive ==
    /\ \/ InitRelay(1..(max_workers - 1 + NumLive), 1..(max_workers - 1))
       \/ InitRelay(1..(max_workers - 1 + NumLive), 1..max_workers)
    /\ NoHttp
    /\ faults_left = 1
    /\ sends_left = 1
    /\ menu = "short"

\* sock.recv(1024) returns, with a chunk or with the end of the stream.
\* Lines 121-125 of save_data wait for nothing: a worker at the entry of
\* save_data (SaveBegin, which is enabled whenever pc is "client") does not
\* stay there, which is weak fairness of SaveBegin stated on the position.
RecvReturns(c) == Recv(c) /\ fault' = fault

\* The next step of the worker thread that runs handle for connection c,
\* from every position but the entry of save_data.
Worker(c) ==
    \/ RecvReturns(c)
    \/ SaveInsert(c)
    \/ SaveFinally(c)
    \/ Send(c)

\* The connections of the peers that are not silent from the start.
LiveIds == max_workers..(max_workers - 1 + NumLive)

Fairness ==
    /\ WF_vars(Accept)
    /\ WF_vars(WorkerStart)
    /\ \A c \in LiveIds :
           /\ WF_vars(PeerClose(c))
           /\ WF_vars(Worker(c))
           /\ []<>(pc[c] # "client")

SpecLive == InitLive /\ [][Next]_vars /\ Fairness

(***************************************************************************)
(* The end of run_socket_server, lines 171-179.  srv is "accept" while the *)
(* main thread is in the accept loop, "drain" and "drain_exc" once line    *)
(* 179 has closed the listening socket and the "with" block is waiting in  *)
(* ThreadPoolExecutor.shutdown(wait=True), after an interrupt and with an  *)
(* exception in flight, and "returned" and "raised" once the function has  *)
(* been left, normally and by that exception.                              *)
(***************************************************************************)
\* KeyboardInterrupt reaches the main thread while it waits in accept:
\* line 176 catches it, line 177 prints, line 179 closes the socket.
Interrupt ==
    /\ Listening
    /\ srv' = "drain"
    /\ UNCHANGED <<pc, peer, inbuf, sent, received, echo, session, data_dict, log, count,
                   fault, messages, backlog, work_queue, faults_left, sends_left, menu,
                   req, http_log>>

\* KeyboardInterrupt reaches the main thread after accept (line 174) has
\* returned a connection and before submit (line 175) has run: the
\* connection is new_sock, a local no worker will ever be given.
AcceptInterrupted ==
    /\ Listening
    /\ backlog # <<>>
    /\ pc' = [pc EXCEPT ![Head(backlog)] = "accepted"]
    /\ backlog' = Tail(backlog)
    /\ srv' = "drain"
    /\ UNCHANGED <<peer, inbuf, sent, received, echo, session, data_dict, log, count,
                   fault, messages, work_queue, faults_left, sends_left, menu, req,
                   http_log>>

\* sock.accept() raises OSError (no descriptor left, a connection aborted
\* in the backlog).  Line 176 catches KeyboardInterrupt only: line 179
\* closes the socket and the error goes on, out of the "with" block.
AcceptFail ==
    /\ Listening
    /\ faults_left > 0
    /\ faults_left' = faults_left - 1
    /\ srv' = "drain_exc"
    /\ UNCHANGED <<pc, peer, inbuf, sent, received, echo, session, data_dict, log, count,
                   fault, messages, backlog, work_queue, sends_left, menu, req, http_log>>

\* Line 171, the end of the "with" block: shutdown(wait=True) returns when
\* every submitted call, the queued ones included, has run and returned.
PoolExit ==
    /\ srv \in {"drain", "drain_exc"}
    /\ work_queue = <<>>
    /\ Running = {}
    /\ srv' = IF srv = "drain" THEN "returned" ELSE "raised"
    /\ UNCHANGED <<pc, peer, inbuf, sent, received, echo, session, data_dict, log, count,
                   fault, messages, backlog, work_queue, faults_left, sends_left, menu,
                   req, http_log>>

InitServer ==
    /\ InitRelay(1..NumConn, {})
    /\ NoHttp
    /\ faults_left = 1
    /\ sends_left = 1
    /\ menu = "dated"

NextServer ==
    \/ Next
    \/ Interrupt
    \/ AcceptInterrupted
    \/ AcceptFail
    \/ PoolExit

SpecServer == InitServer /\ [][NextServer]_vars

(***************************************************************************)
(* The HTTP front end: run_http_server, lines 85-88, HttpHandler, lines    *)
(* 28-50, and send_data_to_socket, lines 102-112.                          *)
(***************************************************************************)
\* The bodies a POST may carry: none, 'k=v', and the byte 0xFF.
HttpBodies == {<<>>, <<107, 61, 118>>, <<255>>}

\* The paths a GET may ask for: '/', '/message', a file that exists under
\* the served folder, and one that does not.
HttpRoutes == {"/", "/message", "/static", "/missing"}

\* The requests a client may make.  A POST whose Content-Length header is
\* missing or is no number has length_ok FALSE; its body is never read.
HttpRequests ==
    {[method |-> "GET", route |-> p, length_ok |-> TRUE, body |-> <<>>] : p \in HttpRoutes}
    \cup {[method |-> "POST", route |-> "/message", length_ok |-> TRUE, body |-> b] :
              b \in HttpBodies}
    \cup {[method |-> "POST", route |-> "/message", length_ok |-> FALSE, body |-> <<>>]}

NoRequest == [method |-> "", route |-> "", length_ok |-> TRUE, body |-> <<>>]

HttpLogged(r) ==
    Append(http_log, [level |-> "error", req |-> r,
                      msg |-> "Unexpected error on socket client send"])

\* A client connects to port 3000; the kernel queues the connection.
\* Requests are numbered in the order in which they arrive.
HttpArrive(r) ==
    /\ req[r].state = "new"
    /\ \A q \in Reqs : q < r => req[q].state # "new"
    /\ \E h \in HttpRequests :
         req' = [req EXCEPT ![r].state = "pending", ![r].request = h]
    /\ UNCHANGED <<pc, peer, inbuf, sent, received, echo, session, data_dict, log,
                   count, fault, messages, backlog, work_queue, srv, faults_left,
                   sends_left, menu, http_log>>

\* HTTPServer.serve_forever runs every handler on the server's one thread:
\* the next connection is taken when no request is being handled.
ServerIdle == Serving = {}

\* Line 88: serve_forever takes the oldest queued connection and calls the
\* handler's do_GET or do_POST.
HttpAccept(r) ==
    /\ req[r].state = "pending"
    /\ \A q \in Reqs : q < r => req[q].state # "pending"
    /\ ServerIdle
    /\ req' = [req EXCEPT ![r].state =
                 IF req[r].request.method = "GET" THEN "get" ELSE "read"]
    /\ UNCHANGED <<pc, peer, inbuf, sent, received, echo, session, data_dict, log,
                   count, fault, messages, backlog, work_queue, srv, faults_left,
                   sends_left, menu, http_log>>

\* Lines 31-41: do_GET answers 200 with a page or a file, 404 otherwise.
DoGet(r) ==
    /\ req[r].state = "get"
    /\ req' = [req EXCEPT ![r].state = "answered",
                          ![r].status = IF req[r].request.route = "/missing"
                                        THEN 404 ELSE 200]
    /\ UNCHANGED <<pc, peer, inbuf, sent, received, echo, session, data_dict, log,
                   count, fault, messages, backlog, work_queue, srv, faults_left,
                   sends_left, menu, http_log>>

\* Line 46: data = self.rfile.read(int(self.headers['Content-Length'])).
\* int() of a missing or malformed header raises; nothing in do_POST
\* catches it, and the handler ends without a response.
PostRead(r) ==
    /\ req[r].state = "read"
    /\ IF req[r].request.length_ok
       THEN req' = [req EXCEPT ![r].state = "connect", ![r].data = req[r].request.body]
       ELSE req' = [req EXCEPT ![r].state = "aborted"]
    /\ UNCHANGED <<pc, peer, inbuf, sent, received, echo, session, data_dict, log,
                   count, fault, messages, backlog, work_queue, srv, faults_left,
                   sends_left, menu, http_log>>

\* Lines 111-112: "except Exception" logs and send_data_to_socket returns.
ClientExcept(r) ==
    /\ faults_left > 0
    /\ faults_left' = faults_left - 1
    /\ http_log' = HttpLogged(r)
    /\ req' = [req EXCEPT ![r].state = "respond"]

\* Lines 103-105: sock.connect(server).  The relay connection is the next
\* one in the order of opening.  A refused connection raises.
ClientConnect(r) ==
    /\ req[r].state = "connect"
    /\ \/ \E c \in Ids :
            /\ pc[c] = "new"
            /\ \A d \in Ids : d < c => pc[d] # "new"
            /\ Listening
            /\ Len(backlog) < backlog_size
            /\ pc' = [pc EXCEPT ![c] = "backlog"]
            /\ peer' = [peer EXCEPT ![c].state = "open"]
            /\ backlog' = Append(backlog, c)
            /\ req' = [req EXCEPT ![r].state = "send", ![r].conn = c]
            /\ UNCHANGED <<faults_left, http_log>>
       \/ /\ ClientExcept(r)
          /\ UNCHANGED <<pc, peer, backlog>>
    /\ UNCHANGED <<inbuf, sent, received, echo, session, data_dict, log, count,
                   fault, messages, work_queue, srv, sends_left, menu>>

\* Line 107: sock.send(data).  What is written to a connection the server
\* has closed is lost.
ClientSend(r) ==
    /\ req[r].state = "send"
    /\ \/ /\ IF pc[req[r].conn] # "done" /\ req[r].data # <<>>
             THEN /\ inbuf' = [inbuf EXCEPT ![req[r].conn] = @ \o req[r].data]
                  /\ sent' = [sent EXCEPT ![req[r].conn] = Append(@, req[r].data)]
             ELSE UNCHANGED <<inbuf, sent>>
          /\ req' = [req EXCEPT ![r].state = "recv"]
          /\ UNCHANGED <<faults_left, http_log>>
       \/ /\ ClientExcept(r)
          /\ UNCHANGED <<inbuf, sent>>
    /\ UNCHANGED <<pc, peer, received, echo, session, data_dict, log, count, fault,
                   messages, backlog, work_queue, srv, sends_left, menu>>

\* Lines 108-110: response = sock.recv(1024) blocks until the server has
\* echoed something or has closed the connection; response.decode() raises
\* on bytes that are not UTF-8.
ClientRecv(r) ==
    /\ req[r].state = "recv"
    /\ \/ /\ echo[req[r].conn] # <<>> \/ pc[req[r].conn] = "done"
          /\ LET response == Take(echo[req[r].conn], BUFSIZE)
             IN /\ req' = [req EXCEPT ![r].state = "respond", ![r].response = response]
                /\ http_log' = IF CanDecode(response) THEN http_log ELSE HttpLogged(r)
          /\ UNCHANGED faults_left
       \/ ClientExcept(r)
    /\ UNCHANGED <<pc, peer, inbuf, sent, received, echo, session, data_dict, log,
                   count, fault, messages, backlog, work_queue, srv, sends_left, menu>>

\* Lines 48-50: send_response(302), Location: /.
PostRespond(r) ==
    /\ req[r].state = "respond"
    /\ req' = [req EXCEPT ![r].state = "answered", ![r].status = 302,
                          ![r].location = "/"]
    /\ UNCHANGED <<pc, peer, inbuf, sent, received, echo, session, data_dict, log,
                   count, fault, messages, backlog, work_queue, srv, faults_left,
                   sends_left, menu, http_log>>

InitHttp ==
    /\ InitRelay(1..NumReq, {})
    /\ req = [r \in 1..NumReq |->
                [state |-> "new", request |-> NoRequest, data |-> <<>>, conn |-> 0,
                 response |-> <<>>, status |-> 0, location |-> ""]]
    /\ http_log = <<>>
    /\ faults_left = MaxFaults
    /\ sends_left = 0
    /\ menu = "short"

NextHttp ==
    \/ \E r \in Reqs : HttpArrive(r)
    \/ \E r \in Reqs : HttpAccept(r)
    \/ \E r \in Reqs : DoGet(r)
    \/ \E r \in Reqs : PostRead(r)
    \/ \E r \in Reqs : ClientConnect(r)
    \/ \E r \in Reqs : ClientSend(r)
    \/ \E r \in Reqs : ClientRecv(r)
    \/ \E r \in Reqs : PostRespond(r)
    \/ \E c \in Ids : PeerClose(c)
    \/ Accept
    \/ WorkerStart
    \/ \E c \in Ids : Recv(c)
    \/ \E c \in Ids : SaveBegin(c)
    \/ \E c \in Ids : SaveInsert(c)
    \/ \E c \in Ids : SaveFinally(c)
    \/ \E c \in Ids : Send(c)

SpecHttp == InitHttp /\ [][NextHttp]_vars

(***************************************************************************)
(* Properties.                                                             *)
(***************************************************************************)
\* The documents connection c put into db.messages.
RecordsFrom(c) == {m \in BagToSet(messages) : m.from = c}

NumRecordsFrom(c) ==
    LET ms == RecordsFrom(c)
        RECURSIVE Sum(_)
        Sum(S) == IF S = {} THEN 0
                  ELSE LET m == CHOOSE x \in S : TRUE
                       IN CopiesIn(m, messages) + Sum(S \ {m})
    IN Sum(ms)

\* C1: on every connection the ack of chunk N is sent only after the
\* save_data call for chunk N has ended (returned or raised): the acks sent
\* never outnumber the save_data calls that ended, and while the worker is
\* inside save_data for chunk N, exactly N - 1 chunks have been acked.
C1_AckAfterPersist ==
    \A c \in Ids :
        /\ count[c].acked <= count[c].saved
        /\ count[c].saved <= count[c].recv
        /\ pc[c] \in SavePcs => /\ count[c].acked = count[c].recv - 1
                                /\ count[c].saved = count[c].recv - 1

\* C1 witness: a connection whose second chunk is acked, after one
\* save_data call that logged a failure and one that inserted.
C1_Witness ==
    \E c \in Ids :
        /\ count[c].acked = 2
        /\ NumRecordsFrom(c) = 1
        /\ \E i \in 1..Len(log[c]) : log[c][i].msg = "Parsing error"

\* C3, as claimed: whatever way a save_data call ends, its chunk is echoed
\* and the connection goes back to recv; a connection whose last chunk was
\* not echoed can only be one whose send failed.
C3_ErrorsKeepConnection ==
    \A c \in Ids :
        count[c].saved > count[c].acked =>
            \/ pc[c] = "send"
            \/ pc[c] = "done" /\ "send" \in fault[c]

\* The number of '=' in each '&'-delimited segment of a payload.
EqCounts(payload) ==
    LET segs == Split(payload, AMP)
    IN [i \in 1..Len(segs) |-> Cardinality({j \in 1..Len(segs[i]) : segs[i][j] = EQ})]

\* A payload is well-formed when it is text and each of its segments holds
\* exactly one '='; it is malformed when a segment holds none or several.
WellFormed(payload) ==
    /\ CanDecode(payload)
    /\ \A i \in DOMAIN EqCounts(payload) : EqCounts(payload)[i] = 1

Malformed(payload) == \E i \in DOMAIN EqCounts(payload) : EqCounts(payload)[i] # 1

\* The FieldMap of a well-formed payload as the spec defines it: the
\* segments between the '&' of the payload, each cut at its '=', key and
\* value percent-decoded.

RefFieldMap(payload) ==
    LET segs == Split(BytesDecode(payload), AMP)
        kv == [i \in 1..Len(segs) |-> Split(segs[i], EQ)]
        keys == {UnquotePlus(kv[i][1]) : i \in 1..Len(kv)}
        last(k) == CHOOSE i \in 1..Len(kv) :
                       /\ UnquotePlus(kv[i][1]) = k
                       /\ \A j \in 1..Len(kv) : UnquotePlus(kv[j][1]) = k => j <= i
    IN [k \in keys |-> UnquotePlus(kv[last(k)][2])]

RefRecord(payload) ==
    [k \in DOMAIN RefFieldMap(payload) \cup {DateKey} |->
        IF k = DateKey THEN DateStr ELSE RefFieldMap(payload)[k]]

\* A connection that carries one well-formed payload and meets no fault.
OneGoodPayload(c) ==
    /\ Len(sent[c]) = 1
    /\ WellFormed(sent[c][1])
    /\ fault[c] = {}

RECURSIVE Concat(_, _)
Concat(ps, n) == IF n = 0 THEN <<>> ELSE Concat(ps, n - 1) \o ps[n]

\* C2, as claimed: the n-th ack a peer reads is exactly the n-th payload it
\* wrote, and when it is sent the server has read nothing of a later
\* payload: after n acks the echoed bytes are the first n payloads, and the
\* bytes taken by recv never reach past payload n + 1.
C2_EchoIsPayload ==
    \A c \in Ids :
        LET n == count[c].acked
            taken == Len(Concat(sent[c], Len(sent[c]))) - Len(inbuf[c])
        IN /\ n <= Len(sent[c])
           /\ echo[c] = Concat(sent[c], n)
           /\ n < Len(sent[c]) => taken <= Len(Concat(sent[c], n + 1))

\* C9, as claimed: a connection never holds more records than payloads
\* were written on it.
C9_AtMostOnce == \A c \in Ids : NumRecordsFrom(c) <= Len(sent[c])

\* C7, as claimed: once lines 121-125 have run on a well-formed chunk,
\* data_dict holds exactly the chunk's keys with their percent-decoded
\* values (and the date line 125 adds).
C7_DecodeWellFormed ==
    \A c \in Ids :
        (pc[c] \in {"insert", "finally"} /\ session[c] = "open"
            /\ WellFormed(received[c]))
        => data_dict[c] = RefRecord(received[c])

\* C8, as claimed: a non-empty chunk with a segment that holds no '=' or several is
\* never inserted: its worker never reaches line 126 with it and the
\* collection holds no record of it.
C8_MalformedPersistsNothing ==
    \A c \in Ids :
        (received[c] # <<>> /\ Malformed(received[c])) =>
            /\ pc[c] # "insert"
            /\ \A m \in RecordsFrom(c) : m.chunk # count[c].recv

\* C10: never more than 10 connections are inside handle; every accepted
\* connection that has no worker yet waits in the executor's queue, once,
\* and nothing else is in that queue: none is rejected or dropped.
C10_BoundedPool ==
    /\ Cardinality(Running) <= 10
    /\ \A c \in Ids :
           pc[c] = "queued" <=>
               Cardinality({i \in 1..Len(work_queue) : work_queue[i] = c}) = 1
    /\ \A i \in 1..Len(work_queue) : pc[work_queue[i]] = "queued"
    /\ work_queue # <<>> /\ Cardinality(Running) < 10 => ENABLED WorkerStart

\* C10 witness: all 10 workers are busy, an accepted connection waits in
\* the queue, and a connection that had a worker has been closed.
C10_Witness ==
    /\ Cardinality(Running) = 10
    /\ work_queue # <<>>
    /\ \E c \in Ids : pc[c] = "done"

\* C4, as claimed: a POST handler ends only by answering 302 with
\* Location '/'.
C4_PostAnswered302 ==
    \A r \in Reqs :
        (req[r].request.method = "POST" /\ req[r].state \in {"answered", "aborted"})
        => req[r].status = 302 /\ req[r].location = "/"

\* C6, as claimed: while a POST handler is inside send_data_to_socket, a
\* request that has arrived can be taken by the server.
C6_NoBlocking ==
    \A r \in Reqs, q \in Reqs :
        (req[r].state \in {"connect", "send", "recv"} /\ req[q].state = "pending"
            /\ \A o \in Reqs : o < q => req[o].state # "pending")
        => ENABLED HttpAccept(q)

\* The kinds of fault that are a failed read or write on the accepted socket.
SocketFaults == {"recv", "send"}

\* C11: a step in which a read or write on connection c fails inside handle
\* logs the error for c and ends c's handle call (its socket closed), and
\* changes nothing else: every other connection is where it was, with its
\* chunk, its echo and its log, the executor's queue and the kernel's
\* backlog are as they were, and the accept loop is still accepting.
C11_SocketErrorsIsolated ==
    [][\A c \in Ids :
          (fault'[c] \ fault[c]) \cap SocketFaults # {} =>
              /\ pc'[c] = "done"
              /\ Len(log'[c]) = Len(log[c]) + 1
              /\ log'[c][Len(log'[c])].level = "error"
              /\ log'[c][Len(log'[c])].msg = "Unexpected error on socket server receive"
              /\ \A d \in Ids \ {c} :
                     /\ pc'[d] = pc[d]
                     /\ received'[d] = received[d]
                     /\ echo'[d] = echo[d]
                     /\ log'[d] = log[d]
                     /\ session'[d] = session[d]
              /\ work_queue' = work_queue
              /\ backlog' = backlog
              /\ messages' = messages
              /\ Listening'
      ]_vars

\* C11 witness: a connection ended by a failed read or write while another
\* connection, which has been served a chunk, is still inside handle.
C11_Witness ==
    \E c \in Ids, d \in Ids :
        /\ c # d
        /\ fault[c] \cap SocketFaults # {}
        /\ pc[c] = "done"
        /\ pc[d] \in HandlePcs
        /\ count[d].acked >= 1

\* C15: a storage client is open only while its worker is inside the
\* save_data call that built it, so a call that has returned or raised,
\* after an insert, a parse error or a storage error, has left none open,
\* and the open clients never outnumber the workers inside save_data.
C15_ScopedSessions ==
    /\ \A c \in Ids : session[c] = "open" => pc[c] \in SavePcs
    /\ Cardinality({c \in Ids : session[c] = "open"})
           <= Cardinality({c \in Ids : pc[c] \in SavePcs})

\* C15 witness: one save_data call returned after a failed insert and
\* another after a successful one, both with their client closed.
C15_Witness ==
    \E c \in Ids, d \in Ids :
        /\ "insert" \in fault[c]
        /\ session[c] = "closed" /\ pc[c] \notin SavePcs
        /\ NumRecordsFrom(d) = 1
        /\ session[d] = "closed" /\ pc[d] \notin SavePcs

\* C16: a handle call leaves the pool of running calls only by closing its
\* socket; on an empty read it does so without a save_data call, an echo
\* or a record; and a closed connection is never touched again.
C16_ClosedIsTerminal ==
    [][\A c \in Ids :
          /\ (c \in Running /\ c \notin Running') => pc'[c] = "done"
          /\ (pc[c] = "recv" /\ pc'[c] # "recv" /\ inbuf[c] = <<>> /\ fault'[c] = fault[c])
                 => /\ pc'[c] = "done"
                    /\ count'[c] = count[c]
                    /\ echo'[c] = echo[c]
                    /\ messages' = messages
          /\ pc[c] = "done"
                 => /\ pc'[c] = "done"
                    /\ count'[c] = count[c]
                    /\ echo'[c] = echo[c]
                    /\ log'[c] = log[c]
                    /\ session'[c] = session[c]
                    /\ RecordsFrom(c)' = RecordsFrom(c)
      ]_vars

\* C16 witness: a connection closed by an empty read after one chunk was
\* served on it, and one closed by an empty read before any chunk.
C16_Witness ==
    \E c \in Ids, d \in Ids :
        /\ pc[c] = "done" /\ fault[c] = {} /\ count[c].acked = 1
        /\ pc[d] = "done" /\ fault[d] = {} /\ count[d].recv = 0

\* The data-saving errors connection c's worker logged.
StorageErrors(c) ==
    {i \in 1..Len(log[c]) : log[c][i].msg = "Unexpected error while data saving"}

\* C18, as claimed: a chunk is either stored or has a data-saving error
\* logged for it, never both: on every connection the records and the
\* logged data-saving errors together never outnumber the chunks read.
C18_ErrorMeansLost ==
    \A c \in Ids :
        Cardinality(StorageErrors(c)) + NumRecordsFrom(c) <= count[c].recv

\* C13, as claimed: once send_data_to_socket has returned, the connection
\* it opened is closed.
C13_ClientClosesSocket ==
    \A r \in Reqs :
        (req[r].state \in {"respond", "answered"} /\ req[r].conn # 0)
        => peer[req[r].conn].state = "closed"

\* C12, as claimed: a failed accept never takes run_socket_server out of
\* the accept loop: the server is never found closing down, or gone,
\* because of an exception.
C12_ListenerSurvives == srv \notin {"drain_exc", "raised"}

\* C17: once the accept loop has been left, the listening socket is closed
\* for good and no further connection is taken from it: none becomes an
\* accepted or submitted one, and no peer's connect is queued any more.
C17_ShutdownStopsAccepting ==
    [][srv # "accept" =>
          /\ srv' # "accept"
          /\ \A c \in Ids :
                 pc'[c] \in {"backlog", "accepted", "queued"} => pc'[c] = pc[c]
          /\ Len(backlog') <= Len(backlog)
      ]_vars

\* C17 witness: the server has returned after an interrupt, having served
\* one connection, and a connection that was waiting in the backlog was
\* never accepted.
C17_Witness ==
    /\ srv = "returned"
    /\ \E c \in Ids : pc[c] = "done" /\ count[c].acked >= 1
    /\ \E c \in Ids : pc[c] = "backlog"

\* C20, as claimed: when run_socket_server has returned after the
\* interrupt, every connection accept ever returned has been handled and
\* closed.
C20_ShutdownDrains ==
    srv = "returned" => \A c \in Ids : pc[c] \in {"new", "backlog", "done"}

\* C14: the record a save_data call inserted has the keys of the mapping
\* decoded from its chunk and the key 'date'; 'date' holds the server's
\* time, also when the chunk has a 'date' of its own, and every other key
\* holds the decoded value.
C14_RecordShape ==
    \A c \in Ids : \A m \in RecordsFrom(c) :
        (m.chunk = count[c].recv /\ received[c] # <<>>) =>
            LET d == DataDict(DataParse(received[c]))
            IN /\ DOMAIN m.doc = DOMAIN d \cup {DateKey}
               /\ m.doc[DateKey] = DateStr
               /\ \A k \in DOMAIN d \ {DateKey} : m.doc[k] = d[k]

\* C14 witness: a record was inserted for a chunk that carries its own
\* 'date', and that date is not the server's.
C14_Witness ==
    \E c \in Ids :
        /\ received[c] = DatedPayload
        /\ NumRecordsFrom(c) = 1
        /\ DataDict(DataParse(received[c]))[DateKey] # DateStr

\* The connections of peers that never write and never close, inside handle.
StalledHolders == {c \in Ids : peer[c].stalled /\ pc[c] \in HandlePcs}

\* Every worker is held by a peer that never closes.
Starved == Cardinality(StalledHolders) = max_workers

\* C19: under fair scheduling, an accepted connection that waits for a
\* worker while not all workers are held by peers that never close is
\* handled in the end: its first chunk is echoed, or its handle call has
\* ended because the peer closed without writing or because a call on the
\* connection failed.  While all 10 workers are held by peers that never close, and
\* no socket fails, this stays so and every waiting connection keeps
\* waiting: no step gives it a worker.
C19_QueuedEventuallyHandled ==
    /\ \A c \in LiveIds :
           (pc[c] = "queued" /\ ~Starved)
               ~> \/ count[c].acked >= 1
                  \/ pc[c] = "done" /\ (sent[c] = <<>> \/ fault[c] # {})
    /\ [][(Starved /\ fault' = fault) =>
             /\ Starved'
             /\ \A c \in Ids : pc[c] = "queued" => pc'[c] = "queued"
         ]_vars

\* C19 witness: with nine workers held by silent peers, a connection has
\* been closed and a later one, which was given the same worker, has had
\* its chunk echoed.
C19_Witness ==
    /\ Cardinality(StalledHolders) = max_workers - 1
    /\ \E c \in Ids, d \in Ids :
           /\ c < d
           /\ ~peer[c].stalled /\ pc[c] = "done"
           /\ count[d].acked >= 1

=============================================================================
